---- MODULE Spec2Model ----
(***************************************************************************)
(* A model of zvdata/factor.py: the Factor pipeline (pre_compute,          *)
(* do_compute, after_compute), its gap-fill step, its persistence and its  *)
(* variants FilterFactor, ScoreFactor and StateFactor.                     *)
(*                                                                         *)
(* Python values are modelled as tagged records, so that a value of one    *)
(* type bound to a parameter that expects another (as happens in           *)
(* ScoreFactor.__init__) behaves as it does in Python: truthiness follows  *)
(* the type, iterating a bool raises TypeError, and so on.                 *)
(* A DataFrame is a tagged sequence of rows (entity_id, timestamp, value)  *)
(* in index order.                                                         *)
(***************************************************************************)
EXTENDS Integers, Sequences, FiniteSets, TLC

----------------------------------------------------------------------------
(* Bounds of the model *)

\* calendar days run from 1 to MaxDay (start_timestamp .. end_timestamp)
MaxDay == 5
\* longest Transformer chain
MaxChain == 3
\* largest effective_number
MaxCap == 2
\* most rows the data source ever holds
MaxRows == 2
\* most rows of a ResultFrame handed to the gap-fill step on its own
MaxObs == 2

\* the entities, in index (sorted) order
entity_ids == <<"e1", "e2">>

Entities == {entity_ids[i] : i \in 1..Len(entity_ids)}
Days == 1..MaxDay
\* the values of raw observations
Values == {1, 2}

----------------------------------------------------------------------------
(* Python values *)

PyNone == [t |-> "none"]
PyBool(b) == [t |-> "bool", b |-> b]
PyInt(n) == [t |-> "int", n |-> n]
PyStr(s) == [t |-> "str", s |-> s]
PyList(l) == [t |-> "list", l |-> l]
PyObj(c) == [t |-> "obj", cls |-> c]

\* Python truthiness, as the conditions "if x" and "x and y" evaluate it
Truthy(x) ==
    CASE x.t = "none" -> FALSE
      [] x.t = "bool" -> x.b
      [] x.t = "int" -> x.n # 0
      [] x.t = "str" -> x.s # ""
      [] x.t = "list" -> x.l # <<>>
      [] OTHER -> TRUE

----------------------------------------------------------------------------
(* DataFrames *)

\* the missing value reindex introduces
NaN == 0

Row(e, d, v) == [entity_id |-> e, timestamp |-> d, value |-> v]
Key(r) == <<r.entity_id, r.timestamp>>
DF(rows) == [t |-> "df", rows |-> rows]

df_is_not_null(df) == df.t = "df" /\ df.rows # <<>>

HasKey(rows, k) == \E i \in 1..Len(rows) : Key(rows[i]) = k

\* the value of the first row with key k
Lookup(rows, k) ==
    LET i == CHOOSE i \in 1..Len(rows) :
                 /\ Key(rows[i]) = k
                 /\ \A j \in 1..(i - 1) : Key(rows[j]) # k
    IN  rows[i].value

KeysOf(df) == IF df.t = "df" THEN {Key(df.rows[i]) : i \in 1..Len(df.rows)} ELSE {}

ValueAt(df, k) == Lookup(df.rows, k)

Reverse(s) == [i \in 1..Len(s) |-> s[Len(s) + 1 - i]]

\* pd.date_range(start, end): every calendar day from start to end
date_range(start, end) ==
    IF end < start THEN <<>> ELSE [i \in 1..(end - start + 1) |-> start + i - 1]

\* index.levels[0]: the entities of the frame, sorted
levels0(rows) ==
    SelectSeq(entity_ids, LAMBDA e : \E i \in 1..Len(rows) : rows[i].entity_id = e)

\* pd.MultiIndex.from_product([levels, idx]): entity-major, day-minor
from_product(levels, idx) ==
    [n \in 1..(Len(levels) * Len(idx)) |->
        <<levels[((n - 1) \div Len(idx)) + 1], idx[((n - 1) % Len(idx)) + 1]>>]

\* df.loc[~df.index.duplicated(keep='first')]
RECURSIVE drop_duplicated_from(_, _)
drop_duplicated_from(rows, i) ==
    IF i > Len(rows) THEN <<>>
    ELSE IF \E j \in 1..(i - 1) : Key(rows[j]) = Key(rows[i])
         THEN drop_duplicated_from(rows, i + 1)
         ELSE <<rows[i]>> \o drop_duplicated_from(rows, i + 1)

drop_duplicated(rows) == drop_duplicated_from(rows, 1)

\* df.reindex(new_index): one row per key of new_index, NaN where df has none
reindex(rows, new_index) ==
    [n \in 1..Len(new_index) |->
        Row(new_index[n][1], new_index[n][2],
            IF HasKey(rows, new_index[n]) THEN Lookup(rows, new_index[n]) ELSE NaN)]

\* One pass over the rows in index order: a missing value takes the last
\* valid value seen, unless limit consecutive missing values were filled
RECURSIVE pad(_, _, _, _, _)
pad(rows, i, last, run, limit) ==
    IF i > Len(rows) THEN <<>>
    ELSE IF rows[i].value # NaN
         THEN <<rows[i]>> \o pad(rows, i + 1, rows[i].value, 0, limit)
         ELSE IF last # NaN /\ run < limit
              THEN <<[rows[i] EXCEPT !.value = last]>> \o pad(rows, i + 1, last, run + 1, limit)
              ELSE <<rows[i]>> \o pad(rows, i + 1, last, run + 1, limit)

\* df.fillna(method=method, limit=limit) for the two fill directions
fillna(rows, method, limit) ==
    IF method \in {"ffill", "pad"}
    THEN pad(rows, 1, NaN, 0, limit)
    ELSE Reverse(pad(Reverse(rows), 1, NaN, 0, limit))

\* fillna accepts these arguments (anything else raises)
fillna_accepts(method, limit) ==
    /\ method.t = "str"
    /\ method.s \in {"ffill", "pad", "bfill", "backfill"}
    /\ \/ limit.t = "none"
       \/ limit.t = "int" /\ limit.n > 0

----------------------------------------------------------------------------
(* Collaborators: Transformer, Accumulator, Scorer, the persisted store *)

TransformerNames == {"Inc", "Dbl"}

\* Transformer.transform: a stateless row-wise mapping of the working frame
transform(name, df) ==
    DF([i \in 1..Len(df.rows) |->
          [df.rows[i] EXCEPT !.value = IF name = "Inc" THEN @ + 1 ELSE 2 * @]])

\* the whole calendar grid, in index order
FullIndex == from_product(entity_ids, date_range(1, MaxDay))

\* upsert by (entity_id, timestamp): the rows of new, and the rows of old
\* whose key new does not hold
upsert(new, old) ==
    LET merged == [n \in 1..Len(FullIndex) |->
                     Row(FullIndex[n][1], FullIndex[n][2],
                         IF HasKey(new, FullIndex[n]) THEN Lookup(new, FullIndex[n])
                         ELSE IF HasKey(old, FullIndex[n]) THEN Lookup(old, FullIndex[n])
                         ELSE NaN)]
    IN  SelectSeq(merged, LAMBDA r : r.value # NaN)

\* Accumulator.acc(pipe_df, factor_df)
acc(pipe, factor) == DF(upsert(pipe.rows, IF factor.t = "df" THEN factor.rows ELSE <<>>))

\* Scorer.score(data_df): the rank of each value among the entities of its day
score(df) ==
    DF([i \in 1..Len(df.rows) |->
          [df.rows[i] EXCEPT !.value =
              Cardinality({j \in 1..Len(df.rows) :
                              /\ df.rows[j].timestamp = df.rows[i].timestamp
                              /\ df.rows[j].value <= df.rows[i].value})]])

\* df_to_db(df, ...): a durable upsert of the frame into the store
df_to_db(df, store) == IF df_is_not_null(df) THEN upsert(df.rows, store) ELSE store

\* get_data(provider='zvt', start_timestamp=...): the persisted rows from start on
get_data(store, start) == DF(SelectSeq(store, LAMBDA r : r.timestamp >= start))

\* load_window_df: the last window persisted rows of each entity
load_window_df(store, window) ==
    DF(SelectSeq(store, LAMBDA r :
          Cardinality({i \in 1..Len(store) :
                          /\ store[i].entity_id = r.entity_id
                          /\ store[i].timestamp > r.timestamp}) < window))

----------------------------------------------------------------------------
(* Construction *)

Kinds == {"Factor", "FilterFactor", "ScoreFactor", "StateFactor"}

\* StateFactor.states: the states the class declares
StateFactor_states == <<>>

\* the default of Factor.__init__'s valid_window
valid_window_default == 250

\* Factor.__init__: the fields it sets from its parameters
Factor_init(start_timestamp, end_timestamp, valid_window, keep_all_timestamp, fill_method, effective_number, transformers, accumulator, need_persist, dry_run) ==
    [start_timestamp |-> start_timestamp,
     end_timestamp |-> end_timestamp,
     valid_window |-> valid_window,
     keep_all_timestamp |-> keep_all_timestamp,
     fill_method |-> fill_method,
     effective_number |-> effective_number,
     transformers |-> transformers,
     accumulator |-> accumulator,
     need_persist |-> need_persist,
     dry_run |-> dry_run]

\* the defaults of Factor.__init__'s need_persist and dry_run
need_persist_default == PyBool(TRUE)
dry_run_default == PyBool(FALSE)

\* ScoreFactor.__init__: it calls Factor.__init__ positionally with
\* keep_all_timestamp right after auto_load and need_persist right after
\* transformers, while Factor.__init__'s parameter list has valid_window after
\* auto_load and accumulator after transformers; the last two parameters of
\* Factor.__init__ receive no argument and take their defaults
ScoreFactor_init(a) ==
    Factor_init(a.start_timestamp, a.end_timestamp,
                a.keep_all_timestamp, a.fill_method, a.effective_number,
                a.transformers, a.need_persist, a.dry_run,
                need_persist_default, dry_run_default)
    @@ [scorer |-> a.scorer]

\* the fields of the constructed object, for each class
Construct(k, a) ==
    IF k = "ScoreFactor"
    THEN ScoreFactor_init(a)
    ELSE Factor_init(a.start_timestamp, a.end_timestamp, a.valid_window,
                     a.keep_all_timestamp, a.fill_method, a.effective_number,
                     a.transformers, a.accumulator, a.need_persist, a.dry_run)
         @@ [scorer |-> PyNone]

\* Factor.__init__'s warm start of factor_df from the persisted store
warm_start(me, store) ==
    IF Truthy(me.need_persist)
    THEN IF Truthy(me.dry_run)
         THEN load_window_df(store, me.valid_window.n)
         ELSE get_data(store, me.start_timestamp)
    ELSE PyNone

----------------------------------------------------------------------------
(* State *)

VARIABLES
    kind,           \* the class of the object
    args,           \* the arguments its constructor was called with
    self,           \* the configuration fields the constructor set
    data_df,        \* RawFrame: the data source's frame
    pipe_df,        \* PipeFrame
    factor_df,      \* FactorFrame
    result_df,      \* ResultFrame
    db,             \* the persisted factor rows (the sink's durable copy)
    loaded,         \* the data source has announced its initial load
    calls,          \* the methods the last compute() entered, in order
    raised,         \* the error the last compute() ended with, or "none"
    fault,          \* which collaborator failed in the last compute()
    result_mid,     \* result_df as the last do_compute left it
    repeat,         \* the last compute() saw the RawFrame of the one before it,
                    \* and that one completed
    pc,             \* the statement of Factor.__init__ to run next, or "constructed"
    data_listeners  \* the listeners registered with the data source, in order

vars == <<kind, args, self, data_df, pipe_df, factor_df, result_df, db, loaded,
          calls, raised, fault, result_mid, repeat, pc, data_listeners>>

\* the collaborator that raises in a cycle: none, or one the object holds:
\* the i-th Transformer, the Accumulator or the persistence sink
Faults ==
    {[at |-> "none", i |-> 0]}
    \cup {[at |-> "transformer", i |-> i] :
             i \in 1..(IF self.transformers.t = "list" THEN Len(self.transformers.l) ELSE 0)}
    \cup (IF self.accumulator.t = "obj" THEN {[at |-> "accumulator", i |-> 0]} ELSE {})
    \cup (IF Truthy(self.need_persist) THEN {[at |-> "sink", i |-> 0]} ELSE {})

\* the object at the start of a cycle
Object ==
    [data_df |-> data_df, pipe_df |-> pipe_df, factor_df |-> factor_df,
     result_df |-> result_df, db |-> db, calls |-> <<>>, raised |-> "none",
     result_mid |-> result_df]

Raise(o, e) == [o EXCEPT !.raised = e]
Enter(o, m) == [o EXCEPT !.calls = Append(@, m)]

----------------------------------------------------------------------------
(* The compute phases *)

\* pre_compute that keeps a PipeFrame it already holds
pre_compute_keep(o) ==
    [Enter(o, "pre_compute") EXCEPT
        !.pipe_df = IF df_is_not_null(o.pipe_df) THEN o.pipe_df ELSE o.data_df]

\* Factor.pre_compute
pre_compute(o) == [Enter(o, "pre_compute") EXCEPT !.pipe_df = o.data_df]

\* the loop publishing each step's output as FactorFrame
RECURSIVE transformers_loop_eager(_, _, _, _)
transformers_loop_eager(ts, i, o, f) ==
    IF i > Len(ts) THEN o
    ELSE IF f.at = "transformer" /\ f.i = i
         THEN Raise(o, "TransformError")
         ELSE transformers_loop_eager(ts, i + 1,
                  [o EXCEPT !.pipe_df = transform(ts[i].cls, o.pipe_df),
                            !.factor_df = transform(ts[i].cls, o.pipe_df)], f)

\* the loop running the chain from its last transform to its first
RECURSIVE transformers_loop_reversed(_, _, _, _)
transformers_loop_reversed(ts, i, o, f) ==
    IF i > Len(ts) THEN o
    ELSE IF f.at = "transformer" /\ f.i = i
         THEN Raise(o, "TransformError")
         ELSE transformers_loop_reversed(ts, i + 1,
                  [o EXCEPT !.pipe_df = transform(ts[Len(ts) + 1 - i].cls, o.pipe_df)], f)

\* the loop "for transformer in self.transformers" from its i-th step on
RECURSIVE transformers_loop(_, _, _, _)
transformers_loop(ts, i, o, f) ==
    IF i > Len(ts) THEN o
    ELSE IF f.at = "transformer" /\ f.i = i
         THEN Raise(o, "TransformError")
         ELSE transformers_loop(ts, i + 1,
                  [o EXCEPT !.pipe_df = transform(ts[i].cls, o.pipe_df)], f)

\* do_compute merging into FactorFrame whether or not an Accumulator is set
Factor_do_compute_always_merge(o, f) ==
    LET o1 == IF df_is_not_null(o.pipe_df) /\ Truthy(self.transformers)
              THEN IF self.transformers.t = "list"
                   THEN transformers_loop(self.transformers.l, 1, o, f)
                   ELSE Raise(o, "TypeError")
              ELSE o
    IN  IF o1.raised # "none" THEN o1
        ELSE IF df_is_not_null(o1.pipe_df)
             THEN IF f.at = "accumulator" THEN Raise(o1, "AccumulationError")
                  ELSE [o1 EXCEPT !.factor_df = acc(o1.pipe_df, o1.factor_df)]
             ELSE [o1 EXCEPT !.factor_df = o1.pipe_df]

\* Factor.do_compute
Factor_do_compute(o, f) ==
    LET o1 == IF df_is_not_null(o.pipe_df) /\ Truthy(self.transformers)
              THEN IF self.transformers.t = "list"
                   THEN transformers_loop(self.transformers.l, 1, o, f)
                   ELSE Raise(o, "TypeError")
              ELSE o
    IN  IF o1.raised # "none" THEN o1
        ELSE IF df_is_not_null(o1.pipe_df) /\ Truthy(self.accumulator)
             THEN IF self.accumulator.t # "obj" THEN Raise(o1, "AttributeError")
                  ELSE IF f.at = "accumulator" THEN Raise(o1, "AccumulationError")
                  ELSE [o1 EXCEPT !.factor_df = acc(o1.pipe_df, o1.factor_df)]
             ELSE [o1 EXCEPT !.factor_df = o1.pipe_df]

\* ScoreFactor.do_compute
ScoreFactor_do_compute(o, f) ==
    LET o1 == Factor_do_compute(o, f)
    IN  IF o1.raised # "none" THEN o1
        ELSE IF df_is_not_null(o1.pipe_df) /\ Truthy(self.scorer)
             THEN [o1 EXCEPT !.result_df = score(o1.data_df)]
             ELSE o1

\* do_compute as the object's class defines it
do_compute(o, f) ==
    LET o1 == IF kind = "ScoreFactor"
              THEN ScoreFactor_do_compute(Enter(o, "do_compute"), f)
              ELSE Factor_do_compute(Enter(o, "do_compute"), f)
    IN  [o1 EXCEPT !.result_mid = o1.result_df]

\* fill_gap calling fillna without its limit
fill_gap_unlimited(o) ==
    IF Truthy(self.keep_all_timestamp)
    THEN IF o.result_df.t # "df"
         THEN Raise(Enter(o, "fill_gap"), "AttributeError")
         ELSE LET idx == date_range(self.start_timestamp, self.end_timestamp)
                  new_index == from_product(levels0(o.result_df.rows), idx)
                  dense == reindex(drop_duplicated(o.result_df.rows), new_index)
                  o1 == [Enter(o, "fill_gap") EXCEPT !.result_df = DF(dense)]
              IN  IF fillna_accepts(self.fill_method, self.effective_number)
                  THEN [o1 EXCEPT !.result_df =
                           DF(fillna(dense, self.fill_method.s, Len(dense)))]
                  ELSE Raise(o1, "ValueError")
    ELSE Enter(o, "fill_gap")

\* fill_gap storing the filled frame as FactorFrame too
fill_gap_into_factor(o) ==
    IF Truthy(self.keep_all_timestamp)
    THEN IF o.result_df.t # "df"
         THEN Raise(Enter(o, "fill_gap"), "AttributeError")
         ELSE LET idx == date_range(self.start_timestamp, self.end_timestamp)
                  new_index == from_product(levels0(o.result_df.rows), idx)
                  dense == reindex(drop_duplicated(o.result_df.rows), new_index)
                  o1 == [Enter(o, "fill_gap") EXCEPT !.result_df = DF(dense)]
              IN  IF fillna_accepts(self.fill_method, self.effective_number)
                  THEN [o1 EXCEPT !.result_df =
                           DF(fillna(dense, self.fill_method.s,
                                     IF self.effective_number.t = "int"
                                     THEN self.effective_number.n
                                     ELSE Len(dense))),
                                  !.factor_df =
                           DF(fillna(dense, self.fill_method.s,
                                     IF self.effective_number.t = "int"
                                     THEN self.effective_number.n
                                     ELSE Len(dense)))]
                  ELSE Raise(o1, "ValueError")
    ELSE Enter(o, "fill_gap")

\* Factor.fill_gap
fill_gap(o) ==
    IF Truthy(self.keep_all_timestamp)
    THEN IF o.result_df.t # "df"
         THEN Raise(Enter(o, "fill_gap"), "AttributeError")
         ELSE LET idx == date_range(self.start_timestamp, self.end_timestamp)
                  new_index == from_product(levels0(o.result_df.rows), idx)
                  dense == reindex(drop_duplicated(o.result_df.rows), new_index)
                  o1 == [Enter(o, "fill_gap") EXCEPT !.result_df = DF(dense)]
              IN  IF fillna_accepts(self.fill_method, self.effective_number)
                  THEN [o1 EXCEPT !.result_df =
                           DF(fillna(dense, self.fill_method.s,
                                     IF self.effective_number.t = "int"
                                     THEN self.effective_number.n
                                     ELSE Len(dense)))]
                  ELSE Raise(o1, "ValueError")
    ELSE Enter(o, "fill_gap")

\* Factor.persist_result
persist_result(o, f) ==
    IF f.at = "sink"
    THEN Raise(Enter(o, "persist_result"), "PersistError")
    ELSE [Enter(o, "persist_result") EXCEPT !.db = df_to_db(o.factor_df, o.db)]

\* after_compute writing to the sink before it fills the gaps
after_compute_persist_first(o, f) ==
    LET o1 == IF Truthy(self.need_persist)
              THEN persist_result(Enter(o, "after_compute"), f)
              ELSE Enter(o, "after_compute")
    IN  IF o1.raised # "none" THEN o1 ELSE fill_gap(o1)

\* after_compute calling the sink a second time when the first call raised
after_compute_retry(o, f) ==
    LET o1 == fill_gap(Enter(o, "after_compute"))
        o2 == IF Truthy(self.need_persist) THEN persist_result(o1, f) ELSE o1
    IN  IF o1.raised # "none" THEN o1
        ELSE IF o2.raised = "PersistError"
             THEN persist_result([o2 EXCEPT !.raised = "none"], f)
             ELSE o2

\* Factor.after_compute
after_compute(o, f) ==
    LET o1 == fill_gap(Enter(o, "after_compute"))
    IN  IF o1.raised # "none" THEN o1
        ELSE IF Truthy(self.need_persist) THEN persist_result(o1, f)
        ELSE o1

\* Factor.compute: an error raised in a phase ends the call
compute(o, f) ==
    LET o1 == pre_compute(o)
        o2 == do_compute(o1, f)
    IN  IF o2.raised # "none" THEN o2 ELSE after_compute(o2, f)

----------------------------------------------------------------------------
(* Operations *)

NoFault == [at |-> "none", i |-> 0]

\* One compute() cycle on the object o, in which the collaborator f fails
Cycle(o, f) ==
    \E r \in {compute(o, f)} :
        /\ data_df' = r.data_df
        /\ pipe_df' = r.pipe_df
        /\ factor_df' = r.factor_df
        /\ result_df' = r.result_df
        /\ db' = r.db
        /\ calls' = r.calls
        /\ raised' = r.raised
        /\ result_mid' = r.result_mid
        /\ fault' = IF r.raised \in {"TransformError", "AccumulationError", "PersistError"}
                    THEN f ELSE NoFault
        /\ repeat' = (calls # <<>> /\ raised = "none" /\ o.data_df = data_df)
        /\ UNCHANGED <<kind, args, self>>

\* a direct call of compute()
CallCompute ==
    /\ pc = "constructed"
    /\ \E f \in Faults : Cycle(Object, f)
    /\ UNCHANGED <<loaded, pc, data_listeners>>

\* the object is registered with the data source
IsListener == \E i \in 1..Len(data_listeners) : data_listeners[i] = "self"

\* Factor.on_data_loaded: the data source announces a load to its listeners
on_data_loaded ==
    /\ IsListener
    /\ ~loaded
    /\ loaded' = TRUE
    /\ \E f \in Faults : Cycle(Object, f)
    /\ UNCHANGED <<pc, data_listeners>>

\* the days of the rows the data source delivers
DataDays == {1, 2}

RowCount(df) == IF df.t = "df" THEN Len(df.rows) ELSE 0

\* the rows the data source may append: later than the rows it holds for
\* that entity
NewRows(df) ==
    {r \in [entity_id : Entities, timestamp : DataDays, value : Values] :
        \A k \in KeysOf(df) : k[1] = r.entity_id => k[2] < r.timestamp}

\* Factor.on_data_changed: the data source has appended a row
on_data_changed ==
    /\ IsListener
    /\ loaded
    /\ RowCount(data_df) < MaxRows
    /\ \E r \in NewRows(data_df), f \in Faults :
          Cycle([Object EXCEPT !.data_df =
                    DF(upsert(<<r>>, IF data_df.t = "df" THEN data_df.rows ELSE <<>>))], f)
    /\ UNCHANGED <<loaded, pc, data_listeners>>

\* the gap-fill step applied on its own to the current ResultFrame
FillGapStep ==
    \E r \in {fill_gap(Object)} :
        /\ result_df' = r.result_df
        /\ calls' = r.calls
        /\ raised' = r.raised
        /\ UNCHANGED <<kind, args, self, data_df, pipe_df, factor_df, db, loaded,
                       fault, result_mid, repeat, pc, data_listeners>>

\* DataReader.load_data: the data source loads the frame d and announces it,
\* calling on_data_loaded (which runs compute) of each listener registered
\* with it
load_data(d) ==
    /\ loaded' = TRUE
    /\ IF IsListener
       THEN \E f \in Faults : Cycle([Object EXCEPT !.data_df = d], f)
       ELSE /\ data_df' = d
            /\ UNCHANGED <<kind, args, self, pipe_df, factor_df, result_df, db,
                           calls, raised, fault, result_mid, repeat>>

\* DataReader.register_data_listener: the subscription of a listener
register_data_listener(l) ==
    data_listeners' = IF IsListener THEN data_listeners ELSE Append(data_listeners, l)

\* what the data source may hold after its initial load: nothing
InitialFrames == {PyNone, DF(<<>>)}

\* or nothing or a first row
LoadedFrames == InitialFrames \cup {DF(<<Row("e2", 1, v)>>) : v \in Values}

\* Factor.__init__, the warm start: "if self.need_persist: ..."
init_warm_start ==
    /\ pc = "warm_start"
    /\ factor_df' = warm_start(self, db)
    /\ pc' = "load_data"
    /\ UNCHANGED <<kind, args, self, data_df, pipe_df, result_df, db, loaded, calls,
                   raised, fault, result_mid, repeat, data_listeners>>

\* Factor.__init__, the statement "self.load_data(...)"
init_load_data ==
    /\ pc = "load_data"
    /\ \E d \in LoadedFrames : load_data(d)
    /\ pc' = "register_data_listener"
    /\ UNCHANGED data_listeners

\* Factor.__init__, the statement "self.register_data_listener(self)"
init_register_data_listener ==
    /\ pc = "register_data_listener"
    /\ register_data_listener("self")
    /\ pc' = "constructed"
    /\ UNCHANGED <<kind, args, self, data_df, pipe_df, factor_df, result_df, db,
                   loaded, calls, raised, fault, result_mid, repeat>>

----------------------------------------------------------------------------
(* Initial states: the object as its constructor leaves it *)

Bool == {PyBool(TRUE), PyBool(FALSE)}

\* the Transformer chains of at most n steps
Chains(n) == UNION {[1..m -> {PyObj(x) : x \in TransformerNames}] : m \in 0..n}

\* the constructor arguments of the model
ArgSpace(keeps, methods, caps, chains, accs, persists, dries, scorers) ==
    [start_timestamp : {1}, end_timestamp : {MaxDay},
     valid_window : {PyInt(valid_window_default)},
     keep_all_timestamp : keeps,
     fill_method : {PyStr(m) : m \in methods},
     effective_number : {PyInt(n) : n \in caps},
     transformers : {PyList(c) : c \in chains},
     accumulator : accs,
     need_persist : persists,
     dry_run : dries,
     scorer : scorers]

\* ScoreFactor takes a scorer and no accumulator; the others the reverse
WellFormed(k, a) ==
    IF k = "ScoreFactor" THEN a.accumulator = PyNone ELSE a.scorer = PyNone

InitWith(kinds, argspace, frames, stores, results) ==
    /\ kind \in kinds
    /\ args \in {a \in argspace : WellFormed(kind, a)}
    /\ self = Construct(kind, args)
    /\ data_df \in frames
    /\ db \in stores
    /\ factor_df = warm_start(self, db)
    /\ pipe_df = PyNone
    /\ result_df \in results
    /\ loaded = FALSE
    /\ calls = <<>>
    /\ raised = "none"
    /\ fault = NoFault
    /\ result_mid = result_df
    /\ repeat = FALSE
    /\ pc = "constructed"
    /\ data_listeners = <<"self">>

\* what the store may hold when the object is constructed
Stores == {<<>>} \cup {<<Row("e1", 1, v)>> : v \in Values}

\* A base Factor with every Transformer chain, with and without
\* Accumulator, persistence on, gap-fill off
InitChain ==
    InitWith({"Factor"},
             ArgSpace({PyBool(FALSE)}, {"ffill"}, {MaxCap}, Chains(MaxChain),
                      {PyNone, PyObj("Accumulator")}, {PyBool(TRUE)}, {PyBool(FALSE)},
                      {PyNone}),
             {DF(<<>>)}, {<<>>}, {PyNone})

NextChain == CallCompute \/ on_data_loaded \/ on_data_changed

SpecChain == InitChain /\ [][NextChain]_vars

\* A base Factor over a store that may hold history: with and without
\* Accumulator and persistence, chains of at most one step, gap-fill off
InitPipe ==
    InitWith({"Factor"},
             ArgSpace({PyBool(FALSE)}, {"ffill"}, {MaxCap}, Chains(1),
                      {PyNone, PyObj("Accumulator")}, Bool, {PyBool(FALSE)}, {PyNone}),
             LoadedFrames, Stores, {PyNone})

NextPipe == CallCompute \/ on_data_loaded \/ on_data_changed

SpecPipe == InitPipe /\ [][NextPipe]_vars

\* Every class and every setting of the options, chains of at most one step
Init ==
    InitWith(Kinds,
             ArgSpace(Bool, {"ffill", "bfill"}, {MaxCap}, Chains(1),
                      {PyNone, PyObj("Accumulator")}, Bool, Bool,
                      {PyNone, PyObj("Scorer")}),
             InitialFrames, {<<>>}, {PyNone})

Next == CallCompute \/ on_data_loaded \/ on_data_changed

Spec == Init /\ [][Next]_vars

\* The gap-fill step on its own: any ResultFrame of at most MaxObs rows
ResultFrames ==
    {DF(rows) : rows \in UNION {[1..n -> [entity_id : Entities, timestamp : Days,
                                           value : Values]] : n \in 0..MaxObs}}

InitGap ==
    InitWith({"Factor"},
             ArgSpace({PyBool(TRUE)}, {"ffill", "bfill"}, 1..MaxCap, {<<>>},
                      {PyNone}, {PyBool(FALSE)}, {PyBool(FALSE)}, {PyNone}),
             {PyNone}, {<<>>}, ResultFrames)

NextGap == FillGapStep

SpecGap == InitGap /\ [][NextGap]_vars

\* Cycles of a base Factor with gap-fill on whose ResultFrame has been
\* assigned (do_compute of the base class leaves it as it is): one row
SeedResults == {DF(<<r>>) : r \in [entity_id : {entity_ids[1]}, timestamp : Days, value : Values]}

InitResult ==
    InitWith({"Factor"},
             ArgSpace({PyBool(TRUE)}, {"ffill", "bfill"}, {1}, Chains(1),
                      {PyNone}, {PyBool(TRUE)}, {PyBool(FALSE)}, {PyNone}),
             LoadedFrames, {<<>>}, SeedResults)

NextResult == CallCompute \/ on_data_loaded \/ on_data_changed

SpecResult == InitResult /\ [][NextResult]_vars

\* The constructor step by step, from the statement after the fields are
\* set, and the operations on the constructed object: a Factor and a
\* ScoreFactor, both run modes, a store with history
Windows == {1, valid_window_default}

StartDays == {1, 2}

\* ScoreFactor.__init__ has no valid_window parameter
ConstructArgs(k) ==
    {[a EXCEPT !.start_timestamp = s, !.valid_window = PyInt(w)] :
        a \in {b \in ArgSpace({PyBool(FALSE)}, {"ffill"}, {MaxCap}, {<<>>},
                              {PyNone, PyObj("Accumulator")}, Bool, Bool,
                              {PyNone, PyObj("Scorer")}) : WellFormed(k, b)},
        s \in StartDays,
        w \in IF k = "ScoreFactor" THEN {valid_window_default} ELSE Windows}

\* the persisted histories: any of three rows, in index order
HistoryRows == <<Row("e1", 1, 1), Row("e1", 2, 1), Row("e2", 2, 1)>>

Histories == {SelectSeq(HistoryRows, LAMBDA r : r \in S) : S \in SUBSET {HistoryRows[i] : i \in 1..Len(HistoryRows)}}

InitConstruct ==
    /\ kind \in {"Factor", "ScoreFactor"}
    /\ args \in ConstructArgs(kind)
    /\ self = Construct(kind, args)
    /\ data_df = PyNone
    /\ db \in Histories
    /\ factor_df = PyNone
    /\ pipe_df = PyNone
    /\ result_df = PyNone
    /\ loaded = FALSE
    /\ calls = <<>>
    /\ raised = "none"
    /\ fault = NoFault
    /\ result_mid = PyNone
    /\ repeat = FALSE
    /\ pc = "warm_start"
    /\ data_listeners = <<>>

NextConstruct == init_warm_start \/ init_load_data \/ init_register_data_listener \/ CallCompute \/ on_data_changed

SpecConstruct == InitConstruct /\ [][NextConstruct]_vars

----------------------------------------------------------------------------
(* Properties *)

InCalls(m) == \E i \in 1..Len(calls) : calls[i] = m

IsPrefix(s, t) == Len(s) <= Len(t) /\ \A i \in 1..Len(s) : s[i] = t[i]

\* the value a frame's rows hold at key k, NaN if none (the first, if several)
Cell(rows, k) == IF HasKey(rows, k) THEN Lookup(rows, k) ELSE NaN

\* C1: when a Transformer or the Accumulator raises in a compute() cycle,
\* FactorFrame is what it was before the cycle, the store is untouched and
\* the persistence sink was not invoked in that cycle.
C1_AbortKeepsFactorFrame ==
    [][raised' \in {"TransformError", "AccumulationError"} =>
          /\ factor_df' = factor_df
          /\ db' = db
          /\ \A i \in 1..Len(calls') : calls'[i] # "persist_result"]_vars

\* the second Transformer of a three-step chain raised, over a FactorFrame
\* an earlier cycle had filled
C1_Witness ==
    /\ raised = "TransformError"
    /\ fault.i = 2
    /\ Len(self.transformers.l) = 3
    /\ df_is_not_null(factor_df)
    /\ pipe_df # factor_df

\* the methods of a completed cycle, in order
PhaseOrder == <<"pre_compute", "do_compute", "after_compute", "fill_gap", "persist_result">>

\* C2: a compute() call enters pre_compute, do_compute and after_compute in
\* that order and each at most once; inside after_compute the gap-fill step
\* comes before the persistence write; a completed cycle entered each phase
\* exactly once and invoked the sink exactly once if need_persist is set and
\* never if it is not.
C2_PhaseOrder ==
    calls # <<>> =>
        /\ IsPrefix(calls, PhaseOrder)
        /\ ~Truthy(self.need_persist) => ~InCalls("persist_result")
        /\ raised = "none" =>
              calls = IF Truthy(self.need_persist)
                      THEN PhaseOrder
                      ELSE SubSeq(PhaseOrder, 1, Len(PhaseOrder) - 1)

\* a completed cycle that persisted a non-empty FactorFrame
C2_Witness ==
    /\ raised = "none"
    /\ calls = PhaseOrder
    /\ df_is_not_null(factor_df)
    /\ db # <<>>

\* new is the upsert by key of pipe into old
IsUpsert(new, pipe, old) ==
    /\ KeysOf(new) = KeysOf(pipe) \cup KeysOf(old)
    /\ \A k \in KeysOf(pipe) : ValueAt(new, k) = ValueAt(pipe, k)
    /\ \A k \in KeysOf(old) \ KeysOf(pipe) : ValueAt(new, k) = ValueAt(old, k)
    /\ RowCount(new) = Cardinality(KeysOf(pipe) \cup KeysOf(old))

\* C3: with an Accumulator configured, a completed compute() cycle leaves
\* FactorFrame equal to the upsert by (entity_id, timestamp) of the
\* post-transform PipeFrame into the FactorFrame of before the cycle.
C3_CycleIsUpsert ==
    [][(self.accumulator.t = "obj" /\ raised' = "none") =>
          IsUpsert(factor_df', pipe_df', factor_df)]_vars

\* C4: with an Accumulator configured, no compute() cycle removes a key
\* from FactorFrame.
C4_KeysNeverShrink ==
    [][self.accumulator.t = "obj" => KeysOf(factor_df) \subseteq KeysOf(factor_df')]_vars

\* C5: with no Accumulator configured, after every completed compute()
\* cycle FactorFrame equals the post-transform PipeFrame of that cycle.
C5_NoAccumulatorReplaces ==
    (args.accumulator = PyNone /\ calls # <<>> /\ raised = "none") =>
        factor_df = pipe_df

\* the first cycle of an object warm-started with history, without
\* Accumulator: it completed, and its FactorFrame lacks a key of that history
C5_Witness ==
    /\ args.accumulator = PyNone
    /\ calls # <<>>
    /\ raised = "none"
    /\ ~loaded
    /\ ~repeat
    /\ df_is_not_null(factor_df)
    /\ \E i \in 1..Len(db) : Key(db[i]) \notin KeysOf(factor_df)

\* C6: with no Accumulator, a completed compute() cycle that follows a
\* completed cycle on the same RawFrame leaves FactorFrame as that one
\* left it.
C6_Idempotent ==
    [][(/\ args.accumulator = PyNone
        /\ calls # <<>>
        /\ raised = "none"
        /\ data_df' = data_df
        /\ raised' = "none") => factor_df' = factor_df]_vars

\* a second completed cycle on an unchanged, non-empty RawFrame with a
\* Transformer chain and no Accumulator
C6_Witness ==
    /\ repeat
    /\ raised = "none"
    /\ args.accumulator = PyNone
    /\ self.transformers.l # <<>>
    /\ df_is_not_null(factor_df)

\* the chain applied to a frame: its last transform applied to what the
\* transforms before it give
RECURSIVE InListOrder(_, _)
InListOrder(chain, df) ==
    IF chain = <<>> THEN df
    ELSE transform(chain[Len(chain)].cls,
                   InListOrder(SubSeq(chain, 1, Len(chain) - 1), df))

\* C7: after the transform stage PipeFrame is the chain applied to RawFrame
\* in list order, each transform on the output of the one before it; a chain
\* of two different transforms gives another PipeFrame than the same two in
\* the other order; with an empty chain PipeFrame equals RawFrame.
C7_ChainOrder ==
    (calls # <<>> /\ raised \in {"none", "AccumulationError", "PersistError"}) =>
        LET chain == self.transformers.l
        IN  IF df_is_not_null(data_df)
            THEN /\ pipe_df = InListOrder(chain, data_df)
                 /\ (Len(chain) = 2 /\ chain[1] # chain[2]) =>
                        pipe_df # InListOrder(Reverse(chain), data_df)
                 /\ chain = <<>> => pipe_df = data_df
            ELSE pipe_df = data_df

\* a completed cycle that ran the chain [Inc, Dbl] on a non-empty frame
C7_Witness ==
    /\ self.transformers.l = <<PyObj("Inc"), PyObj("Dbl")>>
    /\ raised = "none"
    /\ df_is_not_null(pipe_df)

\* C8: the gap-fill step does not raise and leaves ResultFrame as it was
\* when ResultFrame is empty or absent, whatever keep_all_timestamp is.
C8_GapFillNoOpOnMissing ==
    (InCalls("fill_gap") /\ ~df_is_not_null(result_mid)) =>
        /\ ~(raised # "none" /\ calls[Len(calls)] = "fill_gap")
        /\ result_df = result_mid

\* C9: one application of the gap-fill step fills the missing positions that
\* follow an observation of an entity, along the fill direction, for at most
\* effective_number positions with that observation's value; the positions of
\* the gap beyond the cap stay missing.
C9_GapFillCap ==
    [][\A e \in Entities, p \in Days, q \in Days :
          LET step == IF self.fill_method.s = "ffill" THEN 1 ELSE 0 - 1
              dist == (q - p) * step
          IN  (/\ dist > 0
               /\ Cell(result_df.rows, <<e, p>>) # NaN
               /\ \A d \in Days :
                     ((d - p) * step > 0 /\ (q - d) * step >= 0) =>
                         Cell(result_df.rows, <<e, d>>) = NaN)
              => Cell(result_df'.rows, <<e, q>>) =
                     IF dist <= self.effective_number.n
                     THEN Cell(result_df.rows, <<e, p>>)
                     ELSE NaN]_vars

\* the series 1, NaN, NaN, NaN, 2 of five days forward-filled with cap 2
C9_Witness ==
    /\ calls = <<"fill_gap">>
    /\ self.fill_method.s = "ffill"
    /\ self.effective_number.n = 2
    /\ Len(result_df.rows) = 5
    /\ [i \in 1..5 |-> result_df.rows[i].value] = <<1, 1, 1, NaN, 2>>

\* C10: for an object of any class constructed with keep_all_timestamp off,
\* after_compute leaves ResultFrame as do_compute left it.
C10_GapFillOffByDefault ==
    (~Truthy(args.keep_all_timestamp) /\ InCalls("after_compute")) =>
        result_df = result_mid

\* C11: in a compute() cycle of a ScoreFactor with a Scorer and a non-empty
\* RawFrame, do_compute completes, FactorFrame is the output of the
\* Transformer stage of that cycle and ResultFrame is the Scorer's output
\* for RawFrame.
C11_ScoreAfterStages ==
    (/\ kind = "ScoreFactor"
     /\ args.scorer # PyNone
     /\ InCalls("do_compute")
     /\ df_is_not_null(data_df)) =>
        /\ ~(raised # "none" /\ calls[Len(calls)] = "do_compute")
        /\ factor_df = InListOrder(args.transformers.l, data_df)
        /\ result_mid = score(data_df)

\* a compute() cycle on the frame the data source holds ran in this step
CycleRan ==
    /\ calls' # <<>>
    /\ IsPrefix(calls', PhaseOrder)
    /\ pipe_df' = data_df'
    /\ raised' = "none" => calls'[Len(calls')] \in {"fill_gap", "persist_result"}

ComputeFields == {"start_timestamp", "end_timestamp", "keep_all_timestamp", "fill_method", "effective_number", "transformers", "accumulator", "need_persist", "scorer"}

\* the same constructor call in the other run mode
OtherRunMode == [args EXCEPT !.dry_run = PyBool(~args.dry_run.b)]

\* C13: constructed with persistence on, FactorFrame holds before the first
\* cycle, in dry-run mode, only rows that are among the last valid_window
\* persisted rows of their entity and, in full mode, exactly the persisted
\* rows from start_timestamp on; and the run mode sets no field that a
\* compute phase reads.
C13_WarmStartByRunMode ==
    /\ (pc # "warm_start" /\ calls = <<>> /\ Truthy(args.need_persist)) =>
           IF Truthy(args.dry_run)
           THEN /\ factor_df.t = "df"
                /\ \A i \in 1..Len(factor_df.rows) :
                      /\ \E j \in 1..Len(db) : db[j] = factor_df.rows[i]
                      /\ Cardinality({j \in 1..Len(db) :
                                         /\ db[j].entity_id = factor_df.rows[i].entity_id
                                         /\ db[j].timestamp > factor_df.rows[i].timestamp})
                            < args.valid_window.n
           ELSE factor_df = DF(SelectSeq(db, LAMBDA r : r.timestamp >= args.start_timestamp))
    /\ \A f \in ComputeFields : Construct(kind, OtherRunMode)[f] = self[f]

\* C14: when the persistence sink raises, the cycle ends with that error
\* in persist_result, FactorFrame holds the value do_compute gave it in this
\* cycle, the store is what it was before the cycle, and the sink was called
\* once.
C14_SinkErrorKeepsNewFactor ==
    [][raised' = "PersistError" =>
          /\ calls' = PhaseOrder
          /\ factor_df' = IF df_is_not_null(pipe_df') /\ self.accumulator.t = "obj"
                          THEN acc(pipe_df', factor_df)
                          ELSE pipe_df'
          /\ db' = db]_vars

\* the sink raised on a FactorFrame holding a key the store lacks
C14_Witness ==
    /\ raised = "PersistError"
    /\ fault.at = "sink"
    /\ calls[Len(calls)] = "persist_result"
    /\ \E k \in KeysOf(factor_df) : ~HasKey(db, k)

\* C15: after every completed compute() cycle of a StateFactor, ResultFrame
\* is a frame and each of its rows holds one of the declared states.
C15_StateResultDeclared ==
    (kind = "StateFactor" /\ calls # <<>> /\ raised = "none") =>
        /\ result_df.t = "df"
        /\ \A i \in 1..Len(result_df.rows) :
              \E j \in 1..Len(StateFactor_states) :
                  result_df.rows[i].value = StateFactor_states[j]

\* C16: a compute() cycle that follows a cycle ended by an error, and in
\* which no collaborator raises, runs from RawFrame through all three phases
\* to completion: PipeFrame is the configured chain applied to RawFrame and
\* FactorFrame the merge of that PipeFrame (or, without Accumulator, that
\* PipeFrame itself).
C16_ReusableAfterAbort ==
    [][(/\ raised # "none"
        /\ raised' \notin {"TransformError", "AccumulationError", "PersistError"}) =>
          /\ raised' = "none"
          /\ calls' = IF Truthy(args.need_persist)
                       THEN PhaseOrder
                       ELSE SubSeq(PhaseOrder, 1, Len(PhaseOrder) - 1)
          /\ pipe_df' = IF df_is_not_null(data_df')
                         THEN InListOrder(args.transformers.l, data_df')
                         ELSE data_df'
          /\ factor_df' = IF df_is_not_null(pipe_df') /\ args.accumulator # PyNone
                           THEN acc(pipe_df', factor_df)
                           ELSE pipe_df']_vars

\* C17: a value the gap-fill step puts at a missing position of an entity
\* is the value of an observation of that same entity.
C17_FillPerEntity ==
    [][\A e \in Entities, d \in Days :
          (/\ Cell(result_df.rows, <<e, d>>) = NaN
           /\ Cell(result_df'.rows, <<e, d>>) # NaN) =>
              \E d2 \in Days :
                  Cell(result_df.rows, <<e, d2>>) = Cell(result_df'.rows, <<e, d>>)]_vars

\* C18: a completed compute() cycle that follows a
\* completed cycle, both with the gap-fill step on and neither reassigning
\* ResultFrame in do_compute, leaves ResultFrame as the first one left it.
C18_CapAcrossCycles ==
    [][(/\ InCalls("fill_gap")
        /\ raised = "none"
        /\ raised' = "none"
        /\ result_mid' = result_df) => result_df' = result_df]_vars

\* the settings Factor.__init__ takes
BaseSettings == {"start_timestamp", "end_timestamp", "valid_window", "keep_all_timestamp", "fill_method", "effective_number", "transformers", "accumulator", "need_persist", "dry_run"}

\* C19: a constructed ScoreFactor holds in every base setting the value
\* its caller passed under that name (for valid_window and accumulator,
\* which it does not take, the default), which is the value a base Factor
\* constructed from the same settings holds.
C19_ScoreFactorPassesSettings ==
    kind = "ScoreFactor" =>
        /\ \A f \in BaseSettings : self[f] = args[f]
        /\ \A f \in BaseSettings : self[f] = Construct("Factor", args)[f]

\* C20: in a cycle that ran the gap-fill step, PipeFrame is still the chain
\* applied to RawFrame and FactorFrame still what do_compute assigned (the
\* PipeFrame, there being no Accumulator), and a completed cycle with
\* persistence on wrote that FactorFrame to the store.
C20_GapFillTouchesResultOnly ==
    [][(\E i \in 1..Len(calls') : calls'[i] = "fill_gap") =>
          /\ pipe_df' = IF df_is_not_null(data_df')
                         THEN InListOrder(self.transformers.l, data_df')
                         ELSE data_df'
          /\ factor_df' = pipe_df'
          /\ (raised' = "none" /\ Truthy(self.need_persist)) =>
                 db' = df_to_db(factor_df', db)]_vars

\* a completed cycle whose gap-fill step densified ResultFrame and whose
\* sink received a FactorFrame that is another frame
C20_Witness ==
    /\ raised = "none"
    /\ calls = PhaseOrder
    /\ df_is_not_null(factor_df)
    /\ result_df.t = "df"
    /\ Len(result_df.rows) > Len(result_mid.rows)
    /\ \E i \in 1..Len(result_df.rows) :
          result_mid.rows[1].value = result_df.rows[i].value /\ Key(result_df.rows[i]) # Key(result_mid.rows[1])
    /\ factor_df # result_df
    /\ db = factor_df.rows

====
